---- MODULE Spec2Model ----
(***************************************************************************)
(* A model of the AUTO inference plugin                                    *)
(* (inference-engine/src/auto_plugin/auto_plugin.cpp).                     *)
(*                                                                         *)
(* Strings that the code searches (device identifiers, full device names,  *)
(* configuration keys and values) are sequences of one-character strings,  *)
(* so that std::string::find and the ordering of std::map are computed as  *)
(* the code computes them.  Strings that are only compared for equality    *)
(* (precision tags, layer names, error kinds) are TLA+ strings.            *)
(***************************************************************************)
EXTENDS Integers, Sequences, FiniteSets, TLC

VARIABLES
    core,                      \* GetCore() != nullptr
    availableDevices,          \* ICore::GetAvailableDevices()
    fullDeviceName,            \* ICore::GetMetric(device, FULL_DEVICE_NAME)
    optimizationCapabilities,  \* ICore::GetMetric(device, OPTIMIZATION_CAPABILITIES)
    supportedLayersMap,        \* ICore::QueryNetwork(network, device, {})
    _config,                   \* AutoInferencePlugin::_config
    given,                     \* the entries of the SetConfig calls that returned
    pc,                        \* position of the call in progress
    call,                      \* the arguments of the call in progress
    ret,                       \* what the call returned or threw
    fullConfig,                \* LoadNetworkImpl: the local fullConfig
    metaDevices,               \* LoadNetworkImpl: the local metaDevices
    cpuFuture,                 \* LoadNetworkImpl: the local cpuFuture
    acceleratorFuture,         \* LoadNetworkImpl: the local acceleratorFuture
    issued                     \* the devices of the std::async calls, in order

\* The services of the Core, which no call of the plugin changes.
coreVars == <<core, availableDevices, fullDeviceName, optimizationCapabilities,
              supportedLayersMap>>
\* The locals of LoadNetworkImpl and its tasks.
loadVars == <<fullConfig, metaDevices, cpuFuture, acceleratorFuture, issued>>

vars == <<coreVars, _config, given, pc, call, ret, loadVars>>

(***************************************************************************)
(* Bounds of the model.                                                    *)
(***************************************************************************)
MaxDevices == 3
MaxListed == 2
MaxEntries == 2
MaxOps == 3
MaxCalls == 3

(***************************************************************************)
(* std::string                                                             *)
(***************************************************************************)
npos == 0 - 1

\* s.find(sub): the first 0-based position at which sub occurs in s, or npos.
Find(s, sub) ==
    LET At(i) == SubSeq(s, i + 1, i + Len(sub)) = sub
        Hits == {i \in 0..(Len(s) - Len(sub)) : At(i)}
    IN  IF Hits = {} THEN npos
        ELSE CHOOSE i \in Hits : \A j \in Hits : i <= j

(***************************************************************************)
(* Device identifiers and the strings the code looks for in them.          *)
(***************************************************************************)
CPU_    == <<"C", "P", "U">>
GPU_    == <<"G", "P", "U">>
MYRIAD_ == <<"M", "Y", "R", "I", "A", "D">>
VPUX_   == <<"V", "P", "U", "X">>
iGPU_   == <<"i", "G", "P", "U">>
dGPU_   == <<"d", "G", "P", "U">>

Dev_CPU    == CPU_
Dev_XCPU   == <<"X">> \o CPU_
Dev_GNA    == <<"G", "N", "A">>
Dev_GPU0   == GPU_ \o <<".", "0">>
Dev_GPU1   == GPU_ \o <<".", "1">>
Dev_VPUX   == VPUX_
Dev_MYRIAD == MYRIAD_

DeviceNames == {Dev_CPU, Dev_XCPU, Dev_GNA, Dev_GPU0, Dev_GPU1, Dev_VPUX, Dev_MYRIAD}

\* Lists of distinct device identifiers, at most n long.
DeviceLists(n) ==
    {s \in UNION {[1..k -> DeviceNames] : k \in 0..n} :
        \A i, j \in 1..Len(s) : i # j => s[i] # s[j]}

Precisions == {"INT8", "FP16", "FP32"}

(***************************************************************************)
(* The metric service of the Core.  A query returns a value or throws.     *)
(***************************************************************************)
NameThrows == [throws |-> TRUE, value |-> <<>>]
CapThrows  == [throws |-> TRUE, value |-> {}]

Returns(v) == [throws |-> FALSE, value |-> v]

\* The full device names a GPU plugin may report: it marks a device as
\* integrated or as discrete, or gives a name with neither marker.
FullNames == {<<>>, iGPU_, dGPU_}
NameAnswers == {NameThrows} \cup {Returns(n) : n \in FullNames}

\* The capability lists a device may report.
CapSets == {{"INT8"}, {"FP16"}, {"FP32"}, {"FP32", "FP16"}}
CapAnswers == {CapThrows} \cup {Returns(c) : c \in CapSets}

GetMetric(device, name) ==
    IF name = "FULL_DEVICE_NAME" THEN fullDeviceName[device]
    ELSE optimizationCapabilities[device]

(***************************************************************************)
(* AutoInferencePlugin::SelectDevice                                       *)
(***************************************************************************)
NoDevice == <<>>

\* What a call of SelectDevice ends with: the device returned, or the
\* exception thrown; queries logs the metric queries it made, in order.
Selected(device, queries) ==
    [status |-> "ok", device |-> device, queries |-> queries]
SelectThrows(what, queries) ==
    [status |-> what, device |-> NoDevice, queries |-> queries]

EmptyTiers ==
    [CPU |-> <<>>, dGPU |-> <<>>, iGPU |-> <<>>, MYRIAD |-> <<>>, VPUX |-> <<>>,
     threw |-> FALSE, queries |-> <<>>]

\* One iteration of the loop that sorts the devices into the five vectors.
ClassifyItem(item, t) ==
    IF Find(item, CPU_) = 0 THEN [t EXCEPT !.CPU = Append(@, item)]
    ELSE IF Find(item, MYRIAD_) = 0 THEN [t EXCEPT !.MYRIAD = Append(@, item)]
    ELSE IF Find(item, VPUX_) = 0 THEN [t EXCEPT !.VPUX = Append(@, item)]
    ELSE IF Find(item, GPU_) = 0 THEN
        LET m == GetMetric(item, "FULL_DEVICE_NAME")
            q == Append(t.queries, <<item, "FULL_DEVICE_NAME">>)
        IN  IF m.throws THEN [t EXCEPT !.threw = TRUE, !.queries = q]
            ELSE IF Find(m.value, iGPU_) # npos
                THEN [t EXCEPT !.iGPU = Append(@, item), !.queries = q]
            ELSE IF Find(m.value, dGPU_) # npos
                THEN [t EXCEPT !.dGPU = Append(@, item), !.queries = q]
            ELSE [t EXCEPT !.queries = q]
    ELSE t

RECURSIVE ClassifyFrom(_, _, _)
ClassifyFrom(devices, i, t) ==
    IF i > Len(devices) \/ t.threw THEN t
    ELSE ClassifyFrom(devices, i + 1, ClassifyItem(devices[i], t))

Classify(devices) == ClassifyFrom(devices, 1, EmptyTiers)

\* for (auto&& item : tier): return the first item whose capabilities hold
\* the precision.  found: an item was returned; threw: a query threw.
RECURSIVE MatchFrom(_, _, _, _)
MatchFrom(tier, i, precision, queries) ==
    IF i > Len(tier)
    THEN [found |-> FALSE, threw |-> FALSE, item |-> NoDevice, queries |-> queries]
    ELSE
        LET item == tier[i]
            capability == GetMetric(item, "OPTIMIZATION_CAPABILITIES")
            q == Append(queries, <<item, "OPTIMIZATION_CAPABILITIES">>)
        IN  IF capability.throws
            THEN [found |-> FALSE, threw |-> TRUE, item |-> NoDevice, queries |-> q]
            ELSE IF precision \in capability.value
            THEN [found |-> TRUE, threw |-> FALSE, item |-> item, queries |-> q]
            ELSE MatchFrom(tier, i + 1, precision, q)

\* The if / else-if chain over dGPU, VPUX, iGPU, MYRIAD.
TierWalk(t, precision, queries) ==
    IF t.dGPU # <<>> THEN MatchFrom(t.dGPU, 1, precision, queries)
    ELSE IF t.VPUX # <<>> THEN MatchFrom(t.VPUX, 1, precision, queries)
    ELSE IF t.iGPU # <<>> THEN MatchFrom(t.iGPU, 1, precision, queries)
    ELSE IF t.MYRIAD # <<>> THEN MatchFrom(t.MYRIAD, 1, precision, queries)
    ELSE [found |-> FALSE, threw |-> FALSE, item |-> NoDevice, queries |-> queries]

\* CpuFallback without the test for an empty CPU vector.
CpuFallbackUnchecked(t, queries) ==
    IF t.CPU = <<>> THEN Selected(NoDevice, queries)
    ELSE Selected(t.CPU[1], queries)

\* The end of SelectDevice: the processor, or the generic error.
CpuFallback(t, queries) ==
    IF t.CPU = <<>> THEN SelectThrows("GeneralError", queries)
    ELSE Selected(t.CPU[1], queries)

\* Fp16Walk matching the network's precision again instead of FP16.
Fp16WalkSamePrecision(t, networkPrecision, queries) ==
    IF networkPrecision = "FP32"
    THEN LET w == TierWalk(t, networkPrecision, queries)
         IN  IF w.threw THEN SelectThrows("MetricError", w.queries)
             ELSE IF w.found THEN Selected(w.item, w.queries)
             ELSE CpuFallback(t, w.queries)
    ELSE CpuFallback(t, queries)

\* The second walk, for an FP32 network on FP16 devices.
Fp16Walk(t, networkPrecision, queries) ==
    IF networkPrecision = "FP32"
    THEN LET w == TierWalk(t, "FP16", queries)
         IN  IF w.threw THEN SelectThrows("MetricError", w.queries)
             ELSE IF w.found THEN Selected(w.item, w.queries)
             ELSE CpuFallback(t, w.queries)
    ELSE CpuFallback(t, queries)

\* SingleDevice without the shortcut: the device is classified like the
\* devices of a longer list and rejected when it falls into no tier.
SingleDeviceClassified(devices) ==
    LET t == Classify(devices)
    IN  IF t.threw THEN SelectThrows("MetricError", t.queries)
        ELSE IF t.CPU = <<>> /\ t.dGPU = <<>> /\ t.iGPU = <<>>
                /\ t.MYRIAD = <<>> /\ t.VPUX = <<>>
        THEN SelectThrows("NotFound", t.queries)
        ELSE Selected(devices[1], t.queries)

\* The shortcut for a list of one device.
SingleDevice(devices) == Selected(devices[1], <<>>)

SelectDevice(devices, networkPrecision) ==
    IF Len(devices) = 0 THEN SelectThrows("NotFound", <<>>)
    ELSE IF Len(devices) = 1 THEN SingleDevice(devices)
    ELSE
        LET t == Classify(devices)
        IN  IF t.threw THEN SelectThrows("MetricError", t.queries)
            ELSE IF t.CPU = <<>> /\ t.dGPU = <<>> /\ t.iGPU = <<>>
                    /\ t.MYRIAD = <<>> /\ t.VPUX = <<>>
            THEN SelectThrows("NotFound", t.queries)
            ELSE
                LET w == TierWalk(t, networkPrecision, t.queries)
                IN  IF w.threw THEN SelectThrows("MetricError", w.queries)
                    ELSE IF w.found THEN Selected(w.item, w.queries)
                    ELSE Fp16Walk(t, networkPrecision, w.queries)

(***************************************************************************)
(* ConfigType: std::map<std::string, std::string>, a function from its     *)
(* keys to their values, iterated in the order of its keys.                *)
(***************************************************************************)
AUTO_ == <<"A", "U", "T", "O", "_">>

EmptyConfig == <<>>

KEY_AUTO_DEVICE_LIST ==
    AUTO_ \o <<"D", "E", "V", "I", "C", "E", "_", "L", "I", "S", "T">>
KEY_PERF_COUNT == <<"P", "E", "R", "F", "_", "C", "O", "U", "N", "T">>
Key_AUTO_X == AUTO_ \o <<"X">>
Key_AUTO   == <<"A", "U", "T", "O">>
Key_XAUTO_ == <<"X">> \o AUTO_

YES   == <<"Y", "E", "S">>
NO    == <<"N", "O">>
MAYBE == <<"M", "A", "Y", "B", "E">>

ConfigKeys == {KEY_AUTO_DEVICE_LIST, KEY_PERF_COUNT, Key_AUTO_X, Key_AUTO, Key_XAUTO_}
ConfigValues == {YES, NO, MAYBE}

\* The characters of the model in the order of their codes.
Alphabet ==
    <<",", ".", "0", "1", "A", "B", "C", "D", "E", "F", "G", "H", "I", "J", "K",
      "L", "M", "N", "O", "P", "Q", "R", "S", "T", "U", "V", "W", "X", "Y", "Z",
      "_", "d", "i">>
Code(c) == CHOOSE i \in 1..Len(Alphabet) : Alphabet[i] = c

\* std::less<std::string>
RECURSIVE Less(_, _)
Less(a, b) ==
    IF b = <<>> THEN FALSE
    ELSE IF a = <<>> THEN TRUE
    ELSE IF Code(a[1]) # Code(b[1]) THEN Code(a[1]) < Code(b[1])
    ELSE Less(Tail(a), Tail(b))

\* The keys of a map in the order in which a range-for visits them.
RECURSIVE Sorted(_)
Sorted(keys) ==
    IF keys = {} THEN <<>>
    ELSE LET first == CHOOSE k \in keys : \A j \in keys \ {k} : Less(k, j)
         IN  <<first>> \o Sorted(keys \ {first})

\* map.insert({k, v}): an entry that exists is kept.
PutIfAbsent(map, k, v) ==
    [x \in DOMAIN map \cup {k} |-> IF x \in DOMAIN map THEN map[x] ELSE v]

\* map[k] = v
Put(map, k, v) ==
    [x \in DOMAIN map \cup {k} |-> IF x = k THEN v ELSE map[x]]

\* The maps of at most n entries.
Configs(n) ==
    UNION {[keys -> ConfigValues] :
            keys \in {k \in SUBSET ConfigKeys : Cardinality(k) <= n}}

(***************************************************************************)
(* AutoInferencePlugin::mergeConfigs                                       *)
(***************************************************************************)
RECURSIVE MergeFrom(_, _, _, _)
MergeFrom(config, local, keys, i) ==
    IF i > Len(keys) THEN config
    ELSE MergeFrom(Put(config, keys[i], local[keys[i]]), local, keys, i + 1)

mergeConfigs(config, local) == MergeFrom(config, local, Sorted(DOMAIN local), 1)

(***************************************************************************)
(* AutoInferencePlugin::CheckConfig                                        *)
(***************************************************************************)
\* The key test with "AUTO_" looked for anywhere in the key.
CheckEntryAnywhere(key, value) ==
    IF Find(key, AUTO_) # npos THEN "ok"
    ELSE IF key = KEY_PERF_COUNT
    THEN IF value = YES \/ value = NO THEN "ok" ELSE "UnsupportedValue"
    ELSE "UnsupportedKey"

\* The body of the loop: continue ("ok") or the exception thrown.
CheckEntry(key, value) ==
    IF Find(key, AUTO_) = 0 THEN "ok"
    ELSE IF key = KEY_PERF_COUNT
    THEN IF value = YES \/ value = NO THEN "ok" ELSE "UnsupportedValue"
    ELSE "UnsupportedKey"

RECURSIVE CheckFrom(_, _, _)
CheckFrom(config, keys, i) ==
    IF i > Len(keys) THEN "ok"
    ELSE LET e == CheckEntry(keys[i], config[keys[i]])
         IN  IF e # "ok" THEN e ELSE CheckFrom(config, keys, i + 1)

\* The call leaves the stored configuration and its argument as they are;
\* the list it obtains from GetMetric(SUPPORTED_CONFIG_KEYS) is not used.
CheckConfig(stored, config) ==
    [status |-> CheckFrom(config, Sorted(DOMAIN config), 1),
     stored |-> stored, config |-> config]

(***************************************************************************)
(* GetNetworkPrecision.  A network is the sequence get_ordered_ops() of    *)
(* its operators; of an operator the model keeps its type and the name of  *)
(* the element type of its input 1.                                        *)
(***************************************************************************)
ConvolutionTypes ==
    {"Convolution", "GroupConvolution", "GroupConvolutionBackpropData",
     "ConvolutionBackpropData", "ConvolutionIE", "DeconvolutionIE"}
ElementTypes == {"f32", "f16", "i8"}

Op(type, layerType) == [type |-> type, layerType |-> layerType]

\* The operators of the model: the convolutions and MatMul with each type
\* of input 1, FakeQuantize and Relu.
Ops ==
    {Op(t, e) : t \in ConvolutionTypes \cup {"MatMul"}, e \in ElementTypes}
        \cup {Op("FakeQuantize", "f32"), Op("Relu", "f32")}

Networks(n) == UNION {[1..k -> Ops] : k \in 0..n}

\* ngraph::op::util::has_op_with_type<T>(function)
HasOpWithType(network, type) == \E i \in 1..Len(network) : network[i].type = type

\* The casts to the four opset1 convolutions only.
IsConvolutionOpset1(node) ==
    node.type \in {"Convolution", "GroupConvolution", "GroupConvolutionBackpropData",
                   "ConvolutionBackpropData"}

\* The six dynamic_pointer_casts of the loop.
IsConvolution(node) ==
    \/ node.type = "Convolution"
    \/ node.type = "GroupConvolution"
    \/ node.type = "GroupConvolutionBackpropData"
    \/ node.type = "ConvolutionBackpropData"
    \/ node.type = "ConvolutionIE"
    \/ node.type = "DeconvolutionIE"

\* for (auto & node : nGraphFunc->get_ordered_ops())
RECURSIVE PrecisionFrom(_, _)
PrecisionFrom(network, i) ==
    IF i > Len(network) THEN "FP32"
    ELSE IF IsConvolution(network[i])
    THEN IF network[i].layerType = "f32" THEN "FP32"
         ELSE IF network[i].layerType = "f16" THEN "FP16"
         ELSE PrecisionFrom(network, i + 1)
    ELSE PrecisionFrom(network, i + 1)

GetNetworkPrecision(network) ==
    IF HasOpWithType(network, "FakeQuantize") THEN "INT8"
    ELSE PrecisionFrom(network, 1)

(***************************************************************************)
(* AutoInferencePlugin::GetDeviceList                                      *)
(***************************************************************************)
Comma == <<",">>

\* InferenceEngine::DeviceIDParser::getHeteroDevices: the parts of the
\* string between its commas; what follows the last comma is a part unless
\* it is empty.
RECURSIVE getHeteroDevices(_)
getHeteroDevices(fallbackDevice) ==
    LET pos == Find(fallbackDevice, Comma)
    IN  IF pos # npos
        THEN <<SubSeq(fallbackDevice, 1, pos)>>
                \o getHeteroDevices(SubSeq(fallbackDevice, pos + 2, Len(fallbackDevice)))
        ELSE IF fallbackDevice # <<>> THEN <<fallbackDevice>>
        ELSE <<>>

GetDeviceList(config) ==
    LET deviceList ==
            IF KEY_AUTO_DEVICE_LIST \notin DOMAIN config THEN availableDevices
            ELSE getHeteroDevices(config[KEY_AUTO_DEVICE_LIST])
    IN  IF deviceList = <<>> THEN [status |-> "NoDevices", deviceList |-> <<>>]
        ELSE [status |-> "ok", deviceList |-> deviceList]

(***************************************************************************)
(* AutoInferencePlugin::LoadNetworkImpl.  The call runs on the thread of   *)
(* its caller; each std::async starts a task that runs beside it.          *)
(***************************************************************************)
NoFuture == [state |-> "none", device |-> NoDevice]
Async(device) == [state |-> "running", device |-> device]

\* The find_if with the test of the selector: "CPU" at the start.
CPUIterByPrefix(devices) ==
    LET hits == {i \in 1..Len(devices) : Find(devices[i], CPU_) = 0}
    IN  IF hits = {} THEN 0 ELSE CHOOSE i \in hits : \A j \in hits : i <= j

\* std::find_if(..., d.find("CPU") != npos): the position of the first
\* device whose identifier holds "CPU", or 0 for metaDevices.end().
CPUIter(devices) ==
    LET hits == {i \in 1..Len(devices) : Find(devices[i], CPU_) # npos}
    IN  IF hits = {} THEN 0 ELSE CHOOSE i \in hits : \A j \in hits : i <= j

\* bool isAccelerator = accelerator.find("CPU") == std::string::npos
IsAcceleratorDevice(accelerator) == Find(accelerator, CPU_) = npos

\* bool enablePerfCount = fullConfig.find(KEY_PERF_COUNT) != fullConfig.end()
EnablePerfCount(config) == KEY_PERF_COUNT \in DOMAIN config

\* The exception leaves LoadNetworkImpl after the CPU task was started.
LoadThrowsAfterStart(what) ==
    /\ ret' = [status |-> what]
    /\ pc' = "done"
    /\ cpuFuture' = Async(Dev_CPU)
    /\ issued' = Append(issued, Dev_CPU)
    /\ UNCHANGED <<fullConfig, metaDevices, acceleratorFuture>>

\* The exception leaves LoadNetworkImpl before any task is started.
LoadThrowsEarly(what) ==
    /\ ret' = [status |-> what]
    /\ pc' = "done"
    /\ UNCHANGED <<fullConfig, metaDevices, cpuFuture, acceleratorFuture, issued>>

\* From the entry of LoadNetworkImpl to the start of the CPU task.
LoadStart ==
    /\ pc = "call"
    /\ call.op = "LoadNetworkImpl"
    /\ IF ~core THEN LoadThrowsEarly("NoCore")
       ELSE IF call.modelPath = <<>> /\ ~call.network THEN LoadThrowsEarly("NoNetwork")
       ELSE
        LET merged == mergeConfigs(_config, call.config)
            checked == CheckConfig(_config, merged).status
            listed == GetDeviceList(merged)
            cpu == CPUIter(listed.deviceList)
        IN  IF checked # "ok" THEN LoadThrowsEarly(checked)
            ELSE IF listed.status # "ok" THEN LoadThrowsEarly(listed.status)
            ELSE /\ fullConfig' = merged
                 /\ metaDevices' = listed.deviceList
                 /\ IF cpu # 0
                    THEN /\ cpuFuture' = Async(listed.deviceList[cpu])
                         /\ issued' = Append(issued, listed.deviceList[cpu])
                    ELSE UNCHANGED <<cpuFuture, issued>>
                 /\ pc' = "select"
                 /\ UNCHANGED <<ret, acceleratorFuture>>
    /\ UNCHANGED <<coreVars, _config, given, call>>

\* From SelectDevice to the return of the handle; or SelectDevice throws
\* and the locals are destroyed.
LoadSelect ==
    /\ pc = "select"
    /\ LET accelerator == SelectDevice(metaDevices, call.networkPrecision)
       IN  IF accelerator.status # "ok"
           THEN /\ ret' = [status |-> accelerator.status]
                /\ pc' = "unwind"
                /\ UNCHANGED <<acceleratorFuture, issued>>
           ELSE /\ IF IsAcceleratorDevice(accelerator.device)
                   THEN /\ acceleratorFuture' = Async(accelerator.device)
                        /\ issued' = Append(issued, accelerator.device)
                   ELSE UNCHANGED <<acceleratorFuture, issued>>
                /\ ret' = [status |-> "ok",
                           enablePerfCount |-> EnablePerfCount(fullConfig)]
                /\ pc' = "done"
    /\ UNCHANGED <<coreVars, _config, given, call, fullConfig, metaDevices, cpuFuture>>

\* The exception reaches the caller while the task of cpuFuture still runs.
LoadUnwindDetached ==
    /\ pc = "unwind"
    /\ cpuFuture' = NoFuture
    /\ pc' = "done"
    /\ UNCHANGED <<coreVars, _config, given, call, ret, fullConfig, metaDevices,
                   acceleratorFuture, issued>>

\* The destructor of cpuFuture, a future of std::async, waits for its task;
\* then the exception reaches the caller.
LoadUnwind ==
    /\ pc = "unwind"
    /\ cpuFuture.state # "running"
    /\ cpuFuture' = NoFuture
    /\ pc' = "done"
    /\ UNCHANGED <<coreVars, _config, given, call, ret, fullConfig, metaDevices,
                   acceleratorFuture, issued>>

\* core->LoadNetwork(..., device, {}) of the CPU task returns or throws.
CpuTaskFinish ==
    /\ cpuFuture.state = "running"
    /\ \E outcome \in {"ready", "failed"} :
        cpuFuture' = [cpuFuture EXCEPT !.state = outcome]
    /\ UNCHANGED <<coreVars, _config, given, pc, call, ret, fullConfig, metaDevices,
                   acceleratorFuture, issued>>

\* The accelerator task, when it throws, takes the CPU task with it.
AcceleratorTaskFinishMasks ==
    /\ acceleratorFuture.state = "running"
    /\ \E outcome \in {"ready", "failed"} :
        /\ acceleratorFuture' = [acceleratorFuture EXCEPT !.state = outcome]
        /\ cpuFuture' = IF outcome = "failed" /\ cpuFuture.state # "none"
                        THEN [cpuFuture EXCEPT !.state = "failed"]
                        ELSE cpuFuture
    /\ UNCHANGED <<coreVars, _config, given, pc, call, ret, fullConfig, metaDevices, issued>>

\* core->LoadNetwork(..., device, {}) of the accelerator task returns or throws.
AcceleratorTaskFinish ==
    /\ acceleratorFuture.state = "running"
    /\ \E outcome \in {"ready", "failed"} :
        acceleratorFuture' = [acceleratorFuture EXCEPT !.state = outcome]
    /\ UNCHANGED <<coreVars, _config, given, pc, call, ret, fullConfig, metaDevices,
                   cpuFuture, issued>>

(***************************************************************************)
(* AutoInferencePlugin::QueryNetwork                                       *)
(***************************************************************************)
PluginName == <<"A", "U", "T", "O">>

\* InferenceEngine::details::Intersection
Intersection(a, b) == a \cap b

\* The loop without its break: every device that answers is intersected.
RECURSIVE QueryAllFrom(_, _, _)
QueryAllFrom(devices, i, supportedLayers) ==
    IF i > Len(devices) THEN supportedLayers
    ELSE LET deviceQr == supportedLayersMap[devices[i]]
             deviceSupportedLayers == DOMAIN deviceQr.value
         IN  IF deviceQr.throws THEN QueryAllFrom(devices, i + 1, supportedLayers)
             ELSE QueryAllFrom(devices, i + 1,
                    IF supportedLayers = {} THEN deviceSupportedLayers
                    ELSE IF deviceSupportedLayers = {} THEN supportedLayers
                    ELSE Intersection(supportedLayers, deviceSupportedLayers))

\* The loop over metaDevices; the first answer ends it.
RECURSIVE QueryFrom(_, _, _)
QueryFrom(devices, i, supportedLayers) ==
    IF i > Len(devices) THEN supportedLayers
    ELSE LET deviceQr == supportedLayersMap[devices[i]]
             deviceSupportedLayers == DOMAIN deviceQr.value
         IN  IF deviceQr.throws THEN QueryFrom(devices, i + 1, supportedLayers)
             ELSE IF supportedLayers = {} THEN deviceSupportedLayers
             ELSE IF deviceSupportedLayers = {} THEN supportedLayers
             ELSE Intersection(supportedLayers, deviceSupportedLayers)

\* The scan of the devices, from the first.
QueryDevices(devices) == QueryFrom(devices, 1, {})

QueryNetwork(network, config) ==
    IF ~core THEN [status |-> "NoCore"]
    ELSE IF ~network THEN [status |-> "NoNetwork"]
    ELSE LET listed == GetDeviceList(mergeConfigs(_config, config))
         IN  IF listed.status # "ok" THEN [status |-> listed.status]
             ELSE [status |-> "ok",
                   supportedLayersMap |->
                        [layer \in QueryDevices(listed.deviceList) |-> PluginName]]

(***************************************************************************)
(* Values of the variables a specification does not use.                   *)
(***************************************************************************)
NoCall == [op |-> "none"]
NoRet  == [status |-> "none"]
QueryThrows == [throws |-> TRUE, value |-> <<>>]
NoLayers == [d \in DeviceNames |-> QueryThrows]
NoLoad ==
    /\ fullConfig = EmptyConfig
    /\ metaDevices = <<>>
    /\ cpuFuture = NoFuture
    /\ acceleratorFuture = NoFuture
    /\ issued = <<>>

\* Metrics are drawn for the devices that can be asked for them: the full
\* name of the GPU devices of the list, and the capabilities of its MYRIAD and
\* VPUX devices and of its GPU devices whose full name has a marker.  The
\* other queries are never made; they are fixed (to throw).
NameMaps(devs) ==
    LET asked == {d \in devs : Find(d, GPU_) = 0}
    IN  {[d \in DeviceNames |-> IF d \in asked THEN g[d] ELSE NameThrows] :
            g \in [asked -> NameAnswers]}
CapMaps(devs, names) ==
    LET asked == {d \in devs :
                    \/ Find(d, MYRIAD_) = 0
                    \/ Find(d, VPUX_) = 0
                    \/ Find(d, GPU_) = 0 /\ names[d].value # <<>>}
    IN  {[d \in DeviceNames |-> IF d \in asked THEN g[d] ELSE CapThrows] :
            g \in [asked -> CapAnswers]}

Range(s) == {s[i] : i \in 1..Len(s)}

(***************************************************************************)
(* SpecSelect: SelectDevice on every device list, precision and metrics.   *)
(***************************************************************************)
InitSelect ==
    /\ NoLoad
    /\ given = EmptyConfig
    /\ core = TRUE
    /\ availableDevices = <<>>
    /\ supportedLayersMap = NoLayers
    /\ _config = EmptyConfig
    /\ pc = "call"
    /\ ret = NoRet
    /\ \E devices \in DeviceLists(MaxDevices), networkPrecision \in Precisions :
        /\ call = [op |-> "SelectDevice", metaDevices |-> devices,
                   networkPrecision |-> networkPrecision]
        /\ fullDeviceName \in NameMaps(Range(devices))
        /\ optimizationCapabilities \in CapMaps(Range(devices), fullDeviceName)

CallSelectDevice ==
    /\ pc = "call"
    /\ call.op = "SelectDevice"
    /\ ret' = SelectDevice(call.metaDevices, call.networkPrecision)
    /\ pc' = "done"
    /\ UNCHANGED <<coreVars, _config, given, call, loadVars>>

NextSelect == CallSelectDevice

SpecSelect == InitSelect /\ [][NextSelect]_vars

(***************************************************************************)
(* The vocabulary of the claims about SelectDevice: the tier a device      *)
(* belongs to and what it advertises, read off the device list and the     *)
(* metrics, not off the run of SelectDevice.                               *)
(***************************************************************************)
SelectDone == pc = "done" /\ call.op = "SelectDevice"

HasPrefix(d, p) == Len(d) >= Len(p) /\ SubSeq(d, 1, Len(p)) = p
Mentions(s, p) == \E i \in 1..(Len(s) - Len(p) + 1) : SubSeq(s, i, i + Len(p) - 1) = p

Advertises(d, precision) ==
    /\ ~optimizationCapabilities[d].throws
    /\ precision \in optimizationCapabilities[d].value

TierOf(d) ==
    IF HasPrefix(d, CPU_) THEN "CPU"
    ELSE IF HasPrefix(d, MYRIAD_) THEN "MYRIAD"
    ELSE IF HasPrefix(d, VPUX_) THEN "VPUX"
    ELSE IF HasPrefix(d, GPU_) /\ ~fullDeviceName[d].throws
            /\ Mentions(fullDeviceName[d].value, dGPU_) THEN "dGPU"
    ELSE IF HasPrefix(d, GPU_) /\ ~fullDeviceName[d].throws
            /\ Mentions(fullDeviceName[d].value, iGPU_) THEN "iGPU"
    ELSE "none"

AcceleratorTiers == <<"dGPU", "VPUX", "iGPU", "MYRIAD">>
IsAccelerator(d) == TierOf(d) \in Range(AcceleratorTiers)

\* The members of a tier, in the order of the list.
Members(list, tier) == SelectSeq(list, LAMBDA d : TierOf(d) = tier)

\* A metric query of a device of the list throws.
NameQueryThrows(list) ==
    \E d \in Range(list) : HasPrefix(d, GPU_) /\ fullDeviceName[d].throws
CapQueryThrows(list) ==
    \E d \in Range(list) : optimizationCapabilities[d].throws

(***************************************************************************)
(* C1.  For a device list of exactly one member SelectDevice returns that  *)
(* member, for every precision, whatever its prefix, and asks no metric.   *)
(***************************************************************************)
C1_SingleDeviceReturned ==
    (SelectDone /\ Len(call.metaDevices) = 1) =>
        /\ ret.status = "ok"
        /\ ret.device = call.metaDevices[1]
        /\ ret.queries = <<>>

\* A single device of unrecognised prefix, selected for an INT8 network.
C1_Witness ==
    /\ SelectDone
    /\ call.metaDevices = <<Dev_GNA>>
    /\ call.networkPrecision = "INT8"
    /\ ret.status = "ok"
    /\ ret.device = Dev_GNA

(***************************************************************************)
(* C2.  On a list of two or more devices with a discrete GPU (prefix GPU,  *)
(* full name mentioning dGPU) that advertises the requested precision,     *)
(* SelectDevice returns a discrete GPU.                                    *)
(***************************************************************************)
C2_DiscreteAlwaysChosen ==
    (/\ SelectDone
     /\ Len(call.metaDevices) >= 2
     /\ \E d \in Range(call.metaDevices) :
            TierOf(d) = "dGPU" /\ Advertises(d, call.networkPrecision)) =>
        /\ ret.status = "ok"
        /\ TierOf(ret.device) = "dGPU"

(***************************************************************************)
(* C5.  A metric query that fails during SelectDevice is not fatal: the    *)
(* failure of the query does not become the failure of SelectDevice.       *)
(***************************************************************************)
C5_QueryFailureNotFatal ==
    SelectDone => ret.status # "MetricError"

(***************************************************************************)
(* C3.  An FP32 network, two or more devices, no accelerator advertising   *)
(* FP32 and an accelerator of some tier advertising FP16.                  *)
(***************************************************************************)
Fp16Degradation ==
    /\ SelectDone
    /\ call.networkPrecision = "FP32"
    /\ Len(call.metaDevices) >= 2
    /\ \A d \in Range(call.metaDevices) : IsAccelerator(d) => ~Advertises(d, "FP32")
    /\ \E d \in Range(call.metaDevices) : IsAccelerator(d) /\ Advertises(d, "FP16")

\* The highest-priority accelerator tier that has a member in the list.
RECURSIVE TopTierFrom(_, _)
TopTierFrom(list, i) ==
    IF i > Len(AcceleratorTiers) THEN "none"
    ELSE IF Members(list, AcceleratorTiers[i]) # <<>> THEN AcceleratorTiers[i]
    ELSE TopTierFrom(list, i + 1)
TopTier(list) == TopTierFrom(list, 1)

Unrecognized(d) ==
    ~(HasPrefix(d, CPU_) \/ HasPrefix(d, MYRIAD_) \/ HasPrefix(d, VPUX_)
        \/ HasPrefix(d, GPU_))

\* An accelerator of the list advertises the precision, or FP16 for FP32.
SomeAcceleratorMatches(list, precision) ==
    \E d \in Range(list) :
        /\ IsAccelerator(d)
        /\ \/ Advertises(d, precision)
           \/ precision = "FP32" /\ Advertises(d, "FP16")

Accepted(key, value) ==
    \/ HasPrefix(key, AUTO_)
    \/ key = KEY_PERF_COUNT /\ value \in {YES, NO}

StoredConfigs(n) ==
    {c \in Configs(n) : \A k \in DOMAIN c : Accepted(k, c[k])}

InitConfig ==
    /\ NoLoad
    /\ given = EmptyConfig
    /\ core = TRUE
    /\ availableDevices = <<>>
    /\ fullDeviceName = [d \in DeviceNames |-> NameThrows]
    /\ optimizationCapabilities = [d \in DeviceNames |-> CapThrows]
    /\ supportedLayersMap = NoLayers
    /\ pc = "call"
    /\ ret = NoRet
    /\ \/ /\ _config = EmptyConfig
          /\ \E config \in Configs(MaxEntries), local \in Configs(MaxEntries) :
                call = [op |-> "mergeConfigs", config |-> config, local |-> local]
       \/ /\ _config \in StoredConfigs(MaxEntries)
          /\ \E config \in Configs(MaxEntries) :
                call = [op |-> "CheckConfig", config |-> config, stored |-> _config]

CallMergeConfigs ==
    /\ pc = "call"
    /\ call.op = "mergeConfigs"
    /\ ret' = [status |-> "ok", value |-> mergeConfigs(call.config, call.local)]
    /\ pc' = "done"
    /\ UNCHANGED <<coreVars, _config, given, call, loadVars>>

CallCheckConfig ==
    /\ pc = "call"
    /\ call.op = "CheckConfig"
    /\ LET r == CheckConfig(_config, call.config)
       IN  /\ ret' = [status |-> r.status, config |-> r.config]
           /\ _config' = r.stored
    /\ pc' = "done"
    /\ UNCHANGED <<coreVars, given, call, loadVars>>

NextConfig == CallMergeConfigs \/ CallCheckConfig

SpecConfig == InitConfig /\ [][NextConfig]_vars

MergeDone == pc = "done" /\ call.op = "mergeConfigs"
CheckDone == pc = "done" /\ call.op = "CheckConfig"

(***************************************************************************)
(* C6.  mergeConfigs(A, B) is right-biased: its keys are those of A and of *)
(* B, a key of B has B's value, a key of A alone has A's value; merging    *)
(* the empty map on either side changes nothing, and merging B again       *)
(* changes nothing.                                                        *)
(***************************************************************************)
C6_MergeRightBiased ==
    MergeDone =>
        LET A == call.config
            B == call.local
            R == ret.value
        IN  /\ DOMAIN R = DOMAIN A \cup DOMAIN B
            /\ \A k \in DOMAIN B : R[k] = B[k]
            /\ \A k \in DOMAIN A \ DOMAIN B : R[k] = A[k]
            /\ B = EmptyConfig => R = A
            /\ A = EmptyConfig => R = B
            /\ mergeConfigs(R, B) = R

\* Both maps hold PERF_COUNT, with different values: the second one's wins.
C6_Witness ==
    /\ MergeDone
    /\ KEY_PERF_COUNT \in DOMAIN call.config \cap DOMAIN call.local
    /\ call.config[KEY_PERF_COUNT] = YES
    /\ call.local[KEY_PERF_COUNT] = NO
    /\ ret.value[KEY_PERF_COUNT] = NO
    /\ DOMAIN call.config # DOMAIN call.local

(***************************************************************************)
(* C7.  CheckConfig accepts a map iff each key starts with "AUTO_" or is   *)
(* PERF_COUNT with the value YES or NO; it fails with an unsupported-value *)
(* error for another value of PERF_COUNT and with an unsupported-key error *)
(* for another key (the first offending entry, in the order of the keys,   *)
(* decides which); it changes neither the map nor the stored               *)
(* configuration.                                                          *)
(***************************************************************************)
Offence(key, value) ==
    IF Accepted(key, value) THEN "ok"
    ELSE IF key = KEY_PERF_COUNT THEN "UnsupportedValue"
    ELSE "UnsupportedKey"

C7_CheckConfigPolicy ==
    CheckDone =>
        LET config == call.config
            bad == {k \in DOMAIN config : ~Accepted(k, config[k])}
        IN  /\ ret.status = "ok" <=> bad = {}
            /\ bad # {} =>
                \E k \in bad :
                    /\ \A j \in bad \ {k} : Less(k, j)
                    /\ ret.status = Offence(k, config[k])
            /\ ret.config = call.config
            /\ _config = call.stored

\* PERF_COUNT = MAYBE is rejected for its value, "XAUTO_" for its key.
C7_Witness ==
    /\ CheckDone
    /\ DOMAIN call.config = {KEY_PERF_COUNT, Key_XAUTO_}
    /\ call.config[KEY_PERF_COUNT] = MAYBE
    /\ ret.status = "UnsupportedValue"
    /\ call.stored # EmptyConfig

(***************************************************************************)
(* SpecPrecision: GetNetworkPrecision on every network.                    *)
(***************************************************************************)
InitPrecision ==
    /\ NoLoad
    /\ given = EmptyConfig
    /\ core = TRUE
    /\ availableDevices = <<>>
    /\ fullDeviceName = [d \in DeviceNames |-> NameThrows]
    /\ optimizationCapabilities = [d \in DeviceNames |-> CapThrows]
    /\ supportedLayersMap = NoLayers
    /\ _config = EmptyConfig
    /\ pc = "call"
    /\ ret = NoRet
    /\ \E network \in Networks(MaxOps) :
        call = [op |-> "GetNetworkPrecision", network |-> network]

CallGetNetworkPrecision ==
    /\ pc = "call"
    /\ call.op = "GetNetworkPrecision"
    /\ ret' = [status |-> "ok", value |-> GetNetworkPrecision(call.network)]
    /\ pc' = "done"
    /\ UNCHANGED <<coreVars, _config, given, call, loadVars>>

NextPrecision == CallGetNetworkPrecision

SpecPrecision == InitPrecision /\ [][NextPrecision]_vars

PrecisionDone == pc = "done" /\ call.op = "GetNetworkPrecision"

\* The positions of the convolution-family operators of a network, and of
\* those whose weights (input 1) have a type the classifier knows.
Convolutions(network) ==
    {i \in 1..Len(network) : network[i].type \in ConvolutionTypes}
KnownConvolutions(network) ==
    {i \in Convolutions(network) : network[i].layerType \in {"f32", "f16"}}
First(positions) == CHOOSE i \in positions : \A j \in positions : i <= j
PrecisionOf(layerType) == IF layerType = "f16" THEN "FP16" ELSE "FP32"

(***************************************************************************)
(* C8 as claimed: INT8 for a network with a FakeQuantize operator;         *)
(* otherwise the precision of the weights of the first convolution-family  *)
(* operator, at which the scan stops (FP32 when its type is not known);    *)
(* FP32 when there is no convolution-family operator.                      *)
(***************************************************************************)
C8_FirstConvolutionDecides ==
    PrecisionDone =>
        LET network == call.network
        IN  ret.value =
                IF HasOpWithType(network, "FakeQuantize") THEN "INT8"
                ELSE IF Convolutions(network) = {} THEN "FP32"
                ELSE PrecisionOf(network[First(Convolutions(network))].layerType)

(***************************************************************************)
(* C8 as amended: INT8 for a network with a FakeQuantize operator;         *)
(* otherwise the precision of the weights of the first convolution-family  *)
(* operator whose weights are f32 or f16, convolutions with other weights  *)
(* being skipped; FP32 when no convolution-family operator has such        *)
(* weights.                                                                *)
(***************************************************************************)
C8_FirstKnownConvolutionDecides ==
    PrecisionDone =>
        LET network == call.network
        IN  ret.value =
                IF HasOpWithType(network, "FakeQuantize") THEN "INT8"
                ELSE IF KnownConvolutions(network) = {} THEN "FP32"
                ELSE PrecisionOf(network[First(KnownConvolutions(network))].layerType)

\* The first convolution has i8 weights and is skipped; a later one, an
\* operator of the IE opset, decides FP16.
C8_Witness ==
    /\ PrecisionDone
    /\ Len(call.network) = 3
    /\ call.network[1] = Op("MatMul", "f32")
    /\ call.network[2] = Op("Convolution", "i8")
    /\ call.network[3] = Op("DeconvolutionIE", "f16")
    /\ ret.value = "FP16"

(***************************************************************************)
(* Spec: one call of LoadNetworkImpl and its tasks.  The call is made      *)
(* either on every device list and metric answer, with the list taken from *)
(* the Core or from AUTO_DEVICE_LIST, or on one device list with every     *)
(* stored and given configuration, with or without a Core and a model.     *)
(***************************************************************************)
ModelPath == <<"m">>

\* The list as the value of AUTO_DEVICE_LIST.
RECURSIVE Join(_)
Join(list) ==
    IF list = <<>> THEN <<>>
    ELSE IF Len(list) = 1 THEN list[1]
    ELSE list[1] \o Comma \o Join(Tail(list))

LoadCall(modelPath, network, config, networkPrecision) ==
    [op |-> "LoadNetworkImpl", modelPath |-> modelPath, network |-> network,
     config |-> config, networkPrecision |-> networkPrecision]

\* LoadNetwork passes a file name and no network, and the precision that
\* the declaration of LoadNetworkImpl gives by default; LoadExeNetworkImpl
\* passes no file name, a network that has a function and its precision.
InitDevices ==
    /\ core = TRUE
    /\ _config = EmptyConfig
    /\ \E list \in DeviceLists(MaxListed), byConfig \in BOOLEAN,
          fromPath \in BOOLEAN, networkPrecision \in Precisions :
        /\ availableDevices = IF byConfig THEN <<Dev_CPU>> ELSE list
        /\ fullDeviceName \in NameMaps(Range(list))
        /\ optimizationCapabilities \in CapMaps(Range(list), fullDeviceName)
        /\ call = LoadCall(IF fromPath THEN ModelPath ELSE <<>>, ~fromPath,
                           IF byConfig
                           THEN Put(EmptyConfig, KEY_AUTO_DEVICE_LIST, Join(list))
                           ELSE EmptyConfig,
                           networkPrecision)

\* The configurations that do not name a device list.
PlainConfigs(n) == {c \in Configs(n) : KEY_AUTO_DEVICE_LIST \notin DOMAIN c}

InitConfigs ==
    /\ core \in BOOLEAN
    /\ _config \in StoredConfigs(MaxEntries) \cap PlainConfigs(MaxEntries)
    /\ availableDevices = <<Dev_CPU, Dev_GPU0>>
    /\ fullDeviceName = [d \in DeviceNames |->
                            IF d = Dev_GPU0 THEN Returns(dGPU_) ELSE NameThrows]
    /\ optimizationCapabilities = [d \in DeviceNames |->
                            IF d = Dev_GPU0 THEN Returns({"FP32", "FP16"}) ELSE CapThrows]
    /\ \E config \in PlainConfigs(MaxEntries), modelPath \in {<<>>, ModelPath} :
        \/ call = LoadCall(modelPath, FALSE, config, "FP32")
        \/ modelPath = <<>> /\ call = LoadCall(modelPath, TRUE, config, "FP32")

Init ==
    /\ supportedLayersMap = NoLayers
    /\ pc = "call"
    /\ ret = NoRet
    /\ NoLoad
    /\ given = EmptyConfig
    /\ (InitDevices \/ InitConfigs)

Next ==
    \/ LoadStart
    \/ LoadSelect
    \/ LoadUnwind
    \/ CpuTaskFinish
    \/ AcceleratorTaskFinish

Spec == Init /\ [][Next]_vars

\* LoadNetworkImpl has returned a handle.
LoadReturned == pc = "done" /\ call.op = "LoadNetworkImpl" /\ ret.status = "ok"

(***************************************************************************)
(* C9.  In the handle of a successful LoadNetworkImpl the processor slot   *)
(* is populated iff the enumerated list has a device of the processor      *)
(* tier, and the accelerator slot is populated iff the device SelectDevice *)
(* returned is not of the processor tier, and then it targets that device. *)
(***************************************************************************)
C9_SlotsFollowTiers ==
    LoadReturned =>
        LET accelerator == SelectDevice(metaDevices, call.networkPrecision).device
        IN  /\ cpuFuture.state # "none" <=>
                    \E d \in Range(metaDevices) : TierOf(d) = "CPU"
            /\ acceleratorFuture.state # "none" <=> TierOf(accelerator) # "CPU"
            /\ acceleratorFuture.state # "none" =>
                    acceleratorFuture.device = accelerator

(***************************************************************************)
(* SpecQuery: QueryNetwork on every device list and answer of the devices, *)
(* the list taken from the Core, from the stored configuration or from the *)
(* configuration given.                                                    *)
(***************************************************************************)
Layers == {"opA", "opB"}
LayerSets == {{}, {"opA"}, Layers}

\* A device throws, or answers with the layers it supports, each mapped to
\* its name.
QueryOutcomes == {<<TRUE, {}>>} \cup {<<FALSE, layers>> : layers \in LayerSets}
QueryAnswer(device, outcome) ==
    IF outcome[1] THEN QueryThrows
    ELSE Returns([layer \in outcome[2] |-> device])
QueryMaps(devs) ==
    {[d \in DeviceNames |-> IF d \in devs THEN QueryAnswer(d, g[d]) ELSE QueryThrows] :
        g \in [devs -> QueryOutcomes]}

InitQuery ==
    /\ NoLoad
    /\ given = EmptyConfig
    /\ fullDeviceName = [d \in DeviceNames |-> NameThrows]
    /\ optimizationCapabilities = [d \in DeviceNames |-> CapThrows]
    /\ pc = "call"
    /\ ret = NoRet
    /\ \E list \in DeviceLists(MaxDevices), from \in {"core", "stored", "given"},
          network \in BOOLEAN :
        /\ core \in BOOLEAN
        /\ (~core \/ ~network) => list = <<Dev_CPU, Dev_GPU0>>
        /\ availableDevices = IF from = "core" THEN list ELSE <<Dev_GNA>>
        /\ _config = IF from = "stored"
                     THEN Put(EmptyConfig, KEY_AUTO_DEVICE_LIST, Join(list))
                     ELSE EmptyConfig
        /\ call = [op |-> "QueryNetwork", network |-> network,
                   config |-> IF from = "given"
                              THEN Put(EmptyConfig, KEY_AUTO_DEVICE_LIST, Join(list))
                              ELSE EmptyConfig]
        /\ supportedLayersMap \in QueryMaps(Range(list))

CallQueryNetwork ==
    /\ pc = "call"
    /\ call.op = "QueryNetwork"
    /\ ret' = QueryNetwork(call.network, call.config)
    /\ pc' = "done"
    /\ UNCHANGED <<coreVars, _config, given, call, loadVars>>

NextQuery == CallQueryNetwork

SpecQuery == InitQuery /\ [][NextQuery]_vars

QueryDone == pc = "done" /\ call.op = "QueryNetwork"

\* The devices enumerated for the call, and the positions of those that answer.
Enumerated == GetDeviceList(mergeConfigs(_config, call.config)).deviceList
Responsive(list) == {i \in 1..Len(list) : ~supportedLayersMap[list[i]].throws}

(***************************************************************************)
(* C10.  QueryNetwork, once the devices are enumerated, returns the layers *)
(* of the first device in the order of the list that answers, whatever the *)
(* later devices answer, each mapped to the name of this plugin; when no   *)
(* device answers it returns the empty mapping and does not fail.          *)
(***************************************************************************)
C10_FirstResponsiveDevice ==
    (QueryDone /\ core /\ call.network /\ Enumerated # <<>>) =>
        /\ ret.status = "ok"
        /\ IF Responsive(Enumerated) = {}
           THEN ret.supportedLayersMap = <<>>
           ELSE LET first == Enumerated[First(Responsive(Enumerated))]
                IN  /\ DOMAIN ret.supportedLayersMap =
                            DOMAIN supportedLayersMap[first].value
                    /\ \A layer \in DOMAIN ret.supportedLayersMap :
                        /\ ret.supportedLayersMap[layer] = PluginName
                        /\ ret.supportedLayersMap[layer] # first

\* The first device throws, the second answers opA and opB, the third opA
\* only: both layers are reported, as supported by AUTO.
C10_Witness ==
    /\ QueryDone
    /\ Len(Enumerated) = 3
    /\ Responsive(Enumerated) = {2, 3}
    /\ DOMAIN supportedLayersMap[Enumerated[2]].value = Layers
    /\ DOMAIN supportedLayersMap[Enumerated[3]].value = {"opA"}
    /\ ret.status = "ok"
    /\ DOMAIN ret.supportedLayersMap = Layers

(***************************************************************************)
(* C11.  When LoadNetworkImpl fails because there is no Core, because      *)
(* neither a path nor a graph was given, because the merged configuration  *)
(* has an unsupported key or value, or because the device list is empty,   *)
(* no compile request has been issued: both slots are absent and no task   *)
(* was started.                                                            *)
(***************************************************************************)
EarlyFailures ==
    {"NoCore", "NoNetwork", "UnsupportedKey", "UnsupportedValue", "NoDevices"}

LoadFailedEarly ==
    pc = "done" /\ call.op = "LoadNetworkImpl" /\ ret.status \in EarlyFailures

C11_EarlyFailureIssuesNothing ==
    LoadFailedEarly =>
        /\ issued = <<>>
        /\ cpuFuture = NoFuture
        /\ acceleratorFuture = NoFuture

\* The last of the checks fails: the configuration names an empty list
\* while the Core has a CPU that a task could have been started on.
C11_Witness ==
    /\ LoadFailedEarly
    /\ ret.status = "NoDevices"
    /\ KEY_AUTO_DEVICE_LIST \in DOMAIN call.config
    /\ availableDevices = <<Dev_CPU>>
    /\ issued = <<>>

(***************************************************************************)
(* C12.  The two compile tasks of one LoadNetworkImpl are independent: a   *)
(* running task can always finish, ready or failed, whatever the state of  *)
(* the other slot, so they complete in either order; a step in which one   *)
(* task finishes leaves the other slot as it is; the outcome of a slot     *)
(* stays once the handle is returned; and an absent slot is not a failed   *)
(* one.                                                                    *)
(***************************************************************************)
Finished == {"ready", "failed"}

\* The slot goes from running to the outcome.
Finishes(future, outcome) == future.state = "running" /\ outcome \in Finished

CanFinish(outcome) ==
    /\ cpuFuture.state = "running" =>
            ENABLED (CpuTaskFinish /\ cpuFuture'.state = outcome)
    /\ acceleratorFuture.state = "running" =>
            ENABLED (AcceleratorTaskFinish /\ acceleratorFuture'.state = outcome)

C12_TasksIndependent ==
    /\ [](CanFinish("ready") /\ CanFinish("failed"))
    /\ [](cpuFuture.state = "failed" => cpuFuture # NoFuture)
    /\ [](acceleratorFuture.state = "failed" => acceleratorFuture # NoFuture)
    /\ [][/\ Finishes(cpuFuture, cpuFuture'.state) =>
                acceleratorFuture' = acceleratorFuture
          /\ Finishes(acceleratorFuture, acceleratorFuture'.state) =>
                cpuFuture' = cpuFuture
          /\ (LoadReturned /\ cpuFuture.state \in Finished) =>
                cpuFuture' = cpuFuture
          /\ (LoadReturned /\ acceleratorFuture.state \in Finished) =>
                acceleratorFuture' = acceleratorFuture]_vars

\* The accelerator task has failed and the processor task is ready.
C12_Witness ==
    /\ LoadReturned
    /\ acceleratorFuture.state = "failed"
    /\ cpuFuture.state = "ready"

(***************************************************************************)
(* C13.  The flag of the handle that LoadNetworkImpl returns is true when  *)
(* PERF_COUNT is "YES" in the merged configuration, and false when it is   *)
(* "NO" there or in neither the stored nor the given configuration.        *)
(***************************************************************************)
C13_PerfCountFollowsValue ==
    LoadReturned =>
        LET merged == mergeConfigs(_config, call.config)
        IN  ret.enablePerfCount <=>
                (KEY_PERF_COUNT \in DOMAIN merged /\ merged[KEY_PERF_COUNT] = YES)

(***************************************************************************)
(* AutoInferencePlugin::SetConfig and AutoInferencePlugin::GetConfig       *)
(***************************************************************************)
\* The loop of SetConfig from the i-th entry in the order of the keys: the
\* entries before the one that throws are stored.
RECURSIVE SetFrom(_, _, _, _)
SetFrom(stored, config, keys, i) ==
    IF i > Len(keys) THEN [status |-> "ok", stored |-> stored]
    ELSE LET key == keys[i]
             value == config[key]
         IN  IF Find(key, AUTO_) = 0
             THEN SetFrom(Put(stored, key, value), config, keys, i + 1)
             ELSE IF key = KEY_PERF_COUNT
             THEN IF value = YES \/ value = NO
                  THEN SetFrom(Put(stored, key, value), config, keys, i + 1)
                  ELSE [status |-> "UnsupportedValue", stored |-> stored]
             ELSE [status |-> "UnsupportedKey", stored |-> stored]

SetConfig(stored, config) == SetFrom(stored, config, Sorted(DOMAIN config), 1)

GetConfig(stored, name) ==
    IF name \notin DOMAIN stored THEN [status |-> "UnsupportedKey"]
    ELSE [status |-> "ok", value |-> stored[name]]

(***************************************************************************)
(* SpecStore: any sequence of SetConfig and GetConfig calls on a plugin    *)
(* that starts with an empty stored configuration.                         *)
(***************************************************************************)
InitStore ==
    /\ core = TRUE
    /\ availableDevices = <<Dev_CPU>>
    /\ fullDeviceName = [d \in DeviceNames |-> NameThrows]
    /\ optimizationCapabilities = [d \in DeviceNames |-> CapThrows]
    /\ supportedLayersMap = NoLayers
    /\ _config = EmptyConfig
    /\ given = EmptyConfig
    /\ pc = "idle"
    /\ call = NoCall
    /\ ret = NoRet
    /\ NoLoad

\* The calls made on the plugin so far.
Calls == IF call = NoCall THEN 0 ELSE call.seq

CallSetConfig ==
    /\ Calls < MaxCalls
    /\ \E config \in Configs(MaxEntries) :
        LET r == SetConfig(_config, config)
        IN  /\ call' = [op |-> "SetConfig", config |-> config, seq |-> Calls + 1]
            /\ _config' = r.stored
            /\ ret' = [status |-> r.status]
            /\ given' = IF r.status = "ok" THEN mergeConfigs(given, config)
                        ELSE given
    /\ UNCHANGED <<coreVars, pc, loadVars>>

CallGetConfig ==
    /\ Calls < MaxCalls
    /\ \E name \in ConfigKeys :
        /\ call' = [op |-> "GetConfig", name |-> name, seq |-> Calls + 1]
        /\ ret' = GetConfig(_config, name)
    /\ UNCHANGED <<coreVars, _config, given, pc, loadVars>>

NextStore == CallSetConfig \/ CallGetConfig

SpecStore == InitStore /\ [][NextStore]_vars

\* The map has an entry that SetConfig does not accept.
Violates(config) == \E k \in DOMAIN config : ~Accepted(k, config[k])

(***************************************************************************)
(* C14.  GetConfig(k) returns the value that the most recent SetConfig     *)
(* that succeeded and contained k gave for k, and fails with an            *)
(* unsupported-key error iff no SetConfig that succeeded ever stored k;    *)
(* every entry of the stored configuration is an accepted one; and         *)
(* GetConfig leaves the stored configuration as it is.                     *)
(***************************************************************************)
C14_GetConfigReturnsLastSet ==
    /\ [](call.op = "GetConfig" =>
            IF call.name \in DOMAIN given
            THEN ret.status = "ok" /\ ret.value = given[call.name]
            ELSE ret.status = "UnsupportedKey")
    /\ [](\A k \in DOMAIN _config : Accepted(k, _config[k]))
    /\ [][call'.op = "GetConfig" => _config' = _config]_vars

(***************************************************************************)
(* C16.  SetConfig on a map with an entry that is not accepted fails and   *)
(* leaves the stored configuration exactly as it was before the call.      *)
(***************************************************************************)
C16_SetConfigAllOrNothing ==
    [][(call'.op = "SetConfig" /\ Violates(call'.config)) =>
            /\ ret'.status # "ok"
            /\ _config' = _config]_vars

(***************************************************************************)
(* C15.  On two or more devices with an accelerator among them,            *)
(* SelectDevice returns the first-listed member of the highest-priority    *)
(* non-empty accelerator tier (dGPU > VPUX > iGPU > MYRIAD) that           *)
(* advertises the requested precision, whatever the lower tiers advertise; *)
(* when that tier has none, and for FP32 none that advertises FP16 either, *)
(* it returns the first-listed processor of the list.                      *)
(***************************************************************************)
C15_TopTierFirstMatch ==
    (SelectDone /\ Len(call.metaDevices) >= 2
        /\ TopTier(call.metaDevices) # "none") =>
        LET list == call.metaDevices
            top == Members(list, TopTier(list))
            match == SelectSeq(top,
                        LAMBDA d : Advertises(d, call.networkPrecision))
            fp16 == IF call.networkPrecision = "FP32"
                    THEN SelectSeq(top, LAMBDA d : Advertises(d, "FP16"))
                    ELSE <<>>
            cpus == Members(list, "CPU")
        IN  IF match # <<>> THEN ret.status = "ok" /\ ret.device = match[1]
            ELSE IF fp16 # <<>> THEN ret.status = "ok" /\ ret.device = fp16[1]
            ELSE cpus # <<>> => ret.status = "ok" /\ ret.device = cpus[1]

(***************************************************************************)
(* C17.  A LoadNetworkImpl that returns a handle has populated at least    *)
(* one of the two slots; it has issued at most two compile tasks, one for  *)
(* each populated slot and none else; and every task targets a device of   *)
(* the enumerated list.                                                    *)
(***************************************************************************)
\* The devices of the populated slots, the processor slot first.
SlotDevices ==
    (IF cpuFuture.state # "none" THEN <<cpuFuture.device>> ELSE <<>>)
        \o (IF acceleratorFuture.state # "none"
            THEN <<acceleratorFuture.device>> ELSE <<>>)

C17_HandleHasASlot ==
    /\ Len(issued) <= 2
    /\ \A i \in 1..Len(issued) : issued[i] \in Range(metaDevices)
    /\ LoadReturned =>
        /\ cpuFuture.state # "none" \/ acceleratorFuture.state # "none"
        /\ issued = SlotDevices

\* A list without a device that starts with "CPU": the handle is returned
\* with both slots populated.
C17_Witness ==
    /\ LoadReturned
    /\ Members(metaDevices, "CPU") = <<>>
    /\ Len(issued) = 2
    /\ cpuFuture.state # "none"
    /\ acceleratorFuture.state # "none"

(***************************************************************************)
(* C18.  In one LoadNetworkImpl the processor task is issued before        *)
(* SelectDevice runs, for the first device whose identifier holds "CPU"    *)
(* anywhere, and the accelerator task only when SelectDevice has returned; *)
(* so SelectDevice can fail (no tier has a member, no processor to fall    *)
(* back to, a metric query throws) with the processor task issued, and the *)
(* failure reaches the caller only when that task has finished.            *)
(***************************************************************************)
SelectionFailures == {"NotFound", "GeneralError", "MetricError"}

LoadFailedInSelection ==
    pc = "done" /\ call.op = "LoadNetworkImpl" /\ ret.status \in SelectionFailures

\* The devices of the list whose identifier holds "CPU".
MentionCpu(list) == SelectSeq(list, LAMBDA d : Mentions(d, CPU_))

C18_ProcessorTaskBeforeSelection ==
    /\ [](pc \in {"select", "unwind"} =>
            /\ acceleratorFuture = NoFuture
            /\ issued = MentionCpu(<<cpuFuture.device>>)
            /\ IF MentionCpu(metaDevices) = <<>> THEN cpuFuture = NoFuture
               ELSE cpuFuture.device = MentionCpu(metaDevices)[1])
    /\ [](LoadFailedInSelection =>
            /\ issued = SubSeq(MentionCpu(metaDevices), 1, Len(issued))
            /\ Len(issued) = 1 <=> MentionCpu(metaDevices) # <<>>)
    /\ [][/\ acceleratorFuture' # acceleratorFuture /\ acceleratorFuture = NoFuture
                => pc = "select" /\ pc' = "done" /\ ret'.status = "ok"
          /\ (pc # "done" /\ pc' = "done" /\ ret'.status \in SelectionFailures)
                => cpuFuture.state # "running"]_vars

\* SelectDevice finds no device in any tier, the processor tier included,
\* after the task was issued for a device that holds "CPU" after its start.
C18_Witness ==
    /\ LoadFailedInSelection
    /\ ret.status = "NotFound"
    /\ issued = <<Dev_XCPU>>
    /\ Members(metaDevices, "CPU") = <<>>

====
